---- MODULE Spec2Model ----
(***************************************************************************)
(* Model of the /media-stream bridge of src/index.js: one bridging session *)
(* per telephony WebSocket connection, relaying audio between the          *)
(* telephony link (connection) and the realtime AI link (openAiWs), with   *)
(* barge-in handling, playback marks and the activeConversations registry. *)
(*                                                                         *)
(* Every callback of the source is one action.  Node runs callbacks one at *)
(* a time, so each action is atomic.                                       *)
(***************************************************************************)
EXTENDS Integers, Sequences, FiniteSets

\* ------------------------------------------------------------------ bounds
\* Largest media timestamp (abstract milliseconds) a telephony frame carries.
MaxTs == 2
\* Number of media frames whose payloads are recorded per session.
MaxFrames == 2
\* Largest number of outstanding marks held in markQueue.
MaxMarks == 2
\* Clock ticks of the eviction delay (the 300000 ms of the close handler).
GraceTicks == 1
\* Callbacks each session runs when two sessions are followed side by side.
MaxSteps == 3

\* ------------------------------------------------------------- value sets
Sessions == {1, 2}
\* The sessions the single-session specification Spec drives.
Accepted == {1}
StreamSids == {"CA1", "CA2"}
Items == {"I1", "I2"}
Payloads == {"a", "b"}
\* response.delta values: valid base64, unpadded base64, and the empty string.
Deltas == {"QQ==", "QQ", ""}
Timestamps == 0..MaxTs

\* JavaScript null for a string-valued and for a number-valued variable.
NullStr == "null"
NullTs == -1

VARIABLES
    streamSid,                      \* let streamSid (per session)
    latestMediaTimestamp,           \* let latestMediaTimestamp
    lastAssistantItem,              \* let lastAssistantItem
    markQueue,                      \* let markQueue
    responseStartTimestampTwilio,   \* let responseStartTimestampTwilio
    conversation,                   \* the RealtimeConversation: ids of its items
    openAiWs,                       \* openAiWs.readyState
    connection,                     \* the telephony socket's state
    initTimer,                      \* setTimeout(initializeSession, 100)
    evictTimer,                     \* setTimeout(..., 300000) of the close handler
    activeConversations,            \* the global Map streamSid -> conversation
    aiSent,                         \* openAiWs.send calls of the last callback
    telSent,                        \* connection.send calls of the last callback
    peer,                           \* what the two remote peers have done so far
    obs                             \* observations of the run, read by the properties

vars == <<streamSid, latestMediaTimestamp, lastAssistantItem, markQueue,
          responseStartTimestampTwilio, conversation, openAiWs, connection,
          initTimer, evictTimer, activeConversations, aiSent, telSent, peer, obs>>

\* ---------------------------------------------------------------- helpers
\* JavaScript truthiness of a nullable number: null and 0 are falsy.
Falsy(t) == t = NullTs \/ t = 0

\* Map.prototype.set / delete / has on a function with a finite domain.
MapSet(m, k, v) == [x \in (DOMAIN m) \cup {k} |-> IF x = k THEN v ELSE m[x]]
MapDelete(m, k) == [x \in (DOMAIN m) \ {k} |-> m[x]]
MapHas(m, k) == k \in DOMAIN m

\* Buffer.from(delta, "base64").toString("base64"): decoding accepts unpadded
\* input, encoding pads it again.
Base64RoundTrip(d) == IF d = "QQ" THEN "QQ==" ELSE d

\* The messages of the two protocols.
audioAppend(p) == [type |-> "input_audio_buffer.append", audio |-> p]
truncateEvent(item, ms) ==
    [type |-> "conversation.item.truncate", item_id |-> item,
     content_index |-> 0, audio_end_ms |-> ms]
sessionUpdate == [type |-> "session.update"]
audioDelta(sid, d) == [event |-> "media", streamSid |-> sid, payload |-> Base64RoundTrip(d)]
markEvent(sid) == [event |-> "mark", streamSid |-> sid, name |-> "responsePart"]
clearEvent(sid) == [event |-> "clear", streamSid |-> sid]

\* conversation.processEvent(response).item for an event that names item i:
\* the item when the tracker holds it, none otherwise.
processEventItem(s, i) == IF i \in conversation[s] THEN i ELSE NullStr

\* ------------------------------------------------------------------- Init
Init ==
    /\ streamSid = [s \in Sessions |-> NullStr]
    /\ latestMediaTimestamp = [s \in Sessions |-> 0]
    /\ lastAssistantItem = [s \in Sessions |-> NullStr]
    /\ markQueue = [s \in Sessions |-> <<>>]
    /\ responseStartTimestampTwilio = [s \in Sessions |-> NullTs]
    /\ conversation = [s \in Sessions |-> {}]
    /\ openAiWs = [s \in Sessions |-> "CONNECTING"]
    /\ connection = [s \in Sessions |-> "OPEN"]
    /\ initTimer = [s \in Sessions |-> "idle"]
    /\ evictTimer = [s \in Sessions |-> [state |-> "idle", left |-> 0]]
    /\ activeConversations = [x \in {} |-> 0]
    /\ aiSent = [s \in Sessions |-> <<>>]
    /\ telSent = [s \in Sessions |-> <<>>]
    /\ peer = [s \in Sessions |->
                 [lastTs |-> NullTs, aiResp |-> NullStr, aiDone |-> {}]]
    /\ obs = [s \in Sessions |->
                 [lastEv |-> "none", mediaLog |-> <<>>, appendLog |-> <<>>,
                  respStart |-> NullTs, respItem |-> NullStr, respTracked |-> FALSE,
                  scen |-> "s0", registered |-> {}, rec |-> FALSE,
                  order |-> <<>>, left |-> -1]]


\* --------------------------------------------------------- shared pieces
Set(f, s, v) == [f EXCEPT ![s] = v]

\* The input-audio-append commands among the messages m.
AppendsOf(m) == SelectSeq(m, LAMBDA c : c.type = "input_audio_buffer.append")

\* A response is being played: what the interruption algorithm calls active.
ResponseActive(s) ==
    Len(markQueue[s]) > 0 /\ responseStartTimestampTwilio[s] # NullTs

\* Record the callback that just ran in session s: its kind, the appends it
\* sent, the links of its sends, and how far the run still follows the
\* start/media/delta/speech-started scenario.  Only the interruption sends on
\* both links, and records the order of its sends itself.  Where the callbacks
\* of a session are counted (left >= 0), one more is used up.
Observe(s, ev, scen) ==
    [obs[s] EXCEPT !.lastEv = ev,
                   !.appendLog = IF obs[s].rec THEN @ \o AppendsOf(aiSent'[s]) ELSE @,
                   !.scen = scen,
                   !.order = [k \in 1..Len(aiSent'[s]) |-> "ai"]
                                 \o [k \in 1..Len(telSent'[s]) |-> "tel"],
                   !.left = IF @ > 0 THEN @ - 1 ELSE @]

sessionState == <<streamSid, latestMediaTimestamp, lastAssistantItem, markQueue,
                  responseStartTimestampTwilio>>
linkState == <<openAiWs, connection, initTimer, evictTimer>>

\* ------------------------------------------- connection.on("message", ...)
\* Faulty variant of mediaTimestamp: the timestamp is taken only from frames
\* that are forwarded (C6 must tell it apart).
mediaTimestamp_OnlyWhenOpen(s, ts) ==
    IF openAiWs[s] = "OPEN" THEN ts ELSE latestMediaTimestamp[s]

\* case "media": latestMediaTimestamp = data.media.timestamp
mediaTimestamp(s, ts) == ts

\* Faulty variant of mediaForward: the readyState test is missing (C10 must
\* tell it apart).
mediaForward_Always(s, p) == <<audioAppend(p)>>

\* case "media": forward the payload when the AI link is open
mediaForward(s, p) ==
    IF openAiWs[s] = "OPEN" THEN <<audioAppend(p)>> ELSE <<>>

OnMedia(s) ==
    \E ts \in Timestamps, p \in Payloads :
        /\ connection[s] = "OPEN"
        /\ obs[s].rec => Len(obs[s].mediaLog) < MaxFrames
        /\ peer[s].lastTs = NullTs \/ ts >= peer[s].lastTs
        /\ latestMediaTimestamp' = Set(latestMediaTimestamp, s, mediaTimestamp(s, ts))
        /\ aiSent' = Set(aiSent, s, mediaForward(s, p))
        /\ telSent' = Set(telSent, s, <<>>)
        /\ peer' = [peer EXCEPT ![s].lastTs = ts]
        /\ obs' = Set(obs, s,
              [Observe(s, "media",
                       IF obs[s].scen = "s1" /\ ts = 0 /\ p = "a" THEN "s2" ELSE "off")
                 EXCEPT !.mediaLog =
                     IF obs[s].rec
                     THEN Append(@, [payload |-> p, aiOpen |-> openAiWs[s] = "OPEN"])
                     ELSE @])
        /\ UNCHANGED <<streamSid, lastAssistantItem, markQueue,
                       responseStartTimestampTwilio, conversation, linkState,
                       activeConversations>>

\* Faulty variant of startResponseStart: the start frame keeps the response
\* start of the previous stream (C2 must tell it apart).
startResponseStart_Keep(s) == responseStartTimestampTwilio[s]

\* case "start": the values the handler resets
startResponseStart(s) == NullTs
startMediaTimestamp(s) == 0
\* case "start": activeConversations.set(streamSid, conversation)
startRegister(s, sid) == MapSet(activeConversations, sid, s)

\* A start frame that carries the stream identifier sid.
StartFrame(s, sid) ==
    /\ connection[s] = "OPEN"
    /\ streamSid' = Set(streamSid, s, sid)
    /\ activeConversations' = startRegister(s, sid)
    /\ responseStartTimestampTwilio' =
           Set(responseStartTimestampTwilio, s, startResponseStart(s))
    /\ latestMediaTimestamp' = Set(latestMediaTimestamp, s, startMediaTimestamp(s))
    /\ aiSent' = Set(aiSent, s, <<>>)
    /\ telSent' = Set(telSent, s, <<>>)
    /\ peer' = [peer EXCEPT ![s].lastTs = NullTs]
    /\ obs' = Set(obs, s,
          [Observe(s, "start",
                   IF obs[s].scen = "s0" /\ sid = "CA1" THEN "s1" ELSE "off")
             EXCEPT !.registered = @ \cup {sid}, !.respStart = NullTs])
    /\ UNCHANGED <<lastAssistantItem, markQueue, conversation, linkState>>

OnStart(s) == \E sid \in StreamSids : StartFrame(s, sid)

\* case "mark": if (markQueue.length > 0) markQueue.shift()
markShift(q) == IF Len(q) > 0 THEN Tail(q) ELSE q

OnMark(s) ==
    /\ connection[s] = "OPEN"
    /\ markQueue' = Set(markQueue, s, markShift(markQueue[s]))
    /\ aiSent' = Set(aiSent, s, <<>>)
    /\ telSent' = Set(telSent, s, <<>>)
    /\ obs' = Set(obs, s, Observe(s, "mark", "off"))
    /\ UNCHANGED <<streamSid, latestMediaTimestamp, lastAssistantItem,
                   responseStartTimestampTwilio, conversation, linkState,
                   activeConversations, peer>>

\* default: any other control frame is only logged
OnOtherFrame(s) ==
    /\ connection[s] = "OPEN"
    /\ aiSent' = Set(aiSent, s, <<>>)
    /\ telSent' = Set(telSent, s, <<>>)
    /\ obs' = Set(obs, s, Observe(s, "other", "off"))
    /\ UNCHANGED <<sessionState, conversation, linkState, activeConversations, peer>>

\* The frames that do not decode: text JSON.parse rejects, a media frame without
\* its media object, a start frame without its start object.
MalformedFrames == {"text", "media", "start"}

\* Faulty variant of malformedStartSid: the assignment runs with an undefined
\* value before the handler gives up (C14 must tell it apart).
malformedStartSid_Null(s, kind) == IF kind = "start" THEN NullStr ELSE streamSid[s]

\* case "start": streamSid = data.start.streamSid throws while reading the
\* right-hand side, so nothing is assigned; the catch block only logs
malformedStartSid(s, kind) == streamSid[s]
\* case "media": latestMediaTimestamp = data.media.timestamp throws likewise
malformedMediaTimestamp(s, kind) == latestMediaTimestamp[s]

OnMalformedFrame(s) ==
    \E kind \in MalformedFrames :
        /\ connection[s] = "OPEN"
        /\ streamSid' = Set(streamSid, s, malformedStartSid(s, kind))
        /\ latestMediaTimestamp' =
               Set(latestMediaTimestamp, s, malformedMediaTimestamp(s, kind))
        /\ aiSent' = Set(aiSent, s, <<>>)
        /\ telSent' = Set(telSent, s, <<>>)
        /\ obs' = Set(obs, s, Observe(s, "malformed", "off"))
        /\ UNCHANGED <<lastAssistantItem, markQueue, responseStartTimestampTwilio,
                       conversation, linkState, activeConversations, peer>>


\* ----------------------------------------------------- the barge-in path
\* Faulty variants of speechStartedTriggers: || in place of && (C3), and a
\* truthiness test in place of != null (C5).
speechStartedTriggers_Or(s) ==
    Len(markQueue[s]) > 0 \/ responseStartTimestampTwilio[s] # NullTs
speechStartedTriggers_Truthy(s) ==
    Len(markQueue[s]) > 0 /\ ~Falsy(responseStartTimestampTwilio[s])

\* handleSpeechStartedEvent: the guard of the whole body
speechStartedTriggers(s) ==
    Len(markQueue[s]) > 0 /\ responseStartTimestampTwilio[s] # NullTs

\* const elapsedTime = latestMediaTimestamp - responseStartTimestampTwilio
elapsedTime(s) == latestMediaTimestamp[s] - responseStartTimestampTwilio[s]

\* if (lastAssistantItem) openAiWs.send(truncateEvent)
speechStartedTruncate(s) ==
    IF lastAssistantItem[s] # NullStr
    THEN <<truncateEvent(lastAssistantItem[s], elapsedTime(s))>>
    ELSE <<>>

\* Faulty variant of speechStartedItemReset: the item is not cleared (C4).
speechStartedItemReset_Keep(s) == lastAssistantItem[s]

\* lastAssistantItem = null, at the end of a triggered interruption
speechStartedItemReset(s) == NullStr

\* Faulty variant of speechStartedSends: the clear frame goes out first (C16
\* must tell it apart).
speechStartedSends_ClearFirst(s) ==
    <<[link |-> "tel", msg |-> clearEvent(streamSid[s])]>>
        \o [k \in 1..Len(speechStartedTruncate(s)) |->
               [link |-> "ai", msg |-> speechStartedTruncate(s)[k]]]

\* The sends of a triggered interruption in the order of the code: the truncate
\* with openAiWs.send, then the clear frame with connection.send
speechStartedSends(s) ==
    [k \in 1..Len(speechStartedTruncate(s)) |->
        [link |-> "ai", msg |-> speechStartedTruncate(s)[k]]]
        \o <<[link |-> "tel", msg |-> clearEvent(streamSid[s])]>>

\* The messages among sends that go to one link, and the links in order.
SentOn(sends, link) ==
    LET on == SelectSeq(sends, LAMBDA x : x.link = link)
    IN  [k \in 1..Len(on) |-> on[k].msg]
LinksOf(sends) == [k \in 1..Len(sends) |-> sends[k].link]

handleSpeechStartedEvent(s) ==
    IF speechStartedTriggers(s)
    THEN /\ aiSent' = Set(aiSent, s, SentOn(speechStartedSends(s), "ai"))
         /\ telSent' = Set(telSent, s, SentOn(speechStartedSends(s), "tel"))
         /\ markQueue' = Set(markQueue, s, <<>>)
         /\ lastAssistantItem' = Set(lastAssistantItem, s, speechStartedItemReset(s))
         /\ responseStartTimestampTwilio' = Set(responseStartTimestampTwilio, s, NullTs)
    ELSE /\ aiSent' = Set(aiSent, s, <<>>)
         /\ telSent' = Set(telSent, s, <<>>)
         /\ UNCHANGED <<markQueue, lastAssistantItem, responseStartTimestampTwilio>>

\* sendMark: the frame sent, and the token pushed, when streamSid is set
sendMarkFrames(s) ==
    IF streamSid[s] # NullStr THEN <<markEvent(streamSid[s])>> ELSE <<>>
sendMarkQueue(s) ==
    IF streamSid[s] # NullStr THEN Append(markQueue[s], "responsePart") ELSE markQueue[s]

\* if (!responseStartTimestampTwilio) responseStartTimestampTwilio = latestMediaTimestamp
deltaResponseStart(s) ==
    IF Falsy(responseStartTimestampTwilio[s])
    THEN latestMediaTimestamp[s]
    ELSE responseStartTimestampTwilio[s]

\* if (item) lastAssistantItem = item.id
deltaAssistantItem(s, item) ==
    IF item # NullStr THEN item ELSE lastAssistantItem[s]

\* ---------------------------------------------- openAiWs.on("message", ...)
AiDelivers(s) == openAiWs[s] \in {"OPEN", "CLOSING"}

\* JSON.parse(data) throws on text that is not JSON; the catch block is empty
OnMalformedEvent(s) ==
    /\ AiDelivers(s)
    /\ aiSent' = Set(aiSent, s, <<>>)
    /\ telSent' = Set(telSent, s, <<>>)
    /\ obs' = Set(obs, s, Observe(s, "malformed", "off"))
    /\ UNCHANGED <<sessionState, conversation, linkState, activeConversations, peer>>

\* The AI service streams its responses one after the other, each with an item
\* of its own: I1 first, then I2.
NextItems(s) ==
    {i \in Items \ peer[s].aiDone : i = "I1" \/ "I1" \in peer[s].aiDone}

\* A conversation.item.created event: the tracker inserts the item.
OnItemCreated(s) ==
    \E i \in NextItems(s) \ conversation[s] :
        /\ AiDelivers(s)
        /\ conversation' = Set(conversation, s, conversation[s] \cup {i})
        /\ aiSent' = Set(aiSent, s, <<>>)
        /\ telSent' = Set(telSent, s, <<>>)
        /\ obs' = Set(obs, s, Observe(s, "item.created", obs[s].scen))
        /\ UNCHANGED <<sessionState, linkState, activeConversations, peer>>

\* A response.audio.delta event for item i with payload d.
OnAudioDelta(s) ==
    \E i \in NextItems(s), d \in Deltas :
        /\ AiDelivers(s)
        /\ peer[s].aiResp \in {NullStr, i}
        /\ Len(markQueue[s]) < MaxMarks
        /\ peer' = [peer EXCEPT ![s].aiResp = i]
        /\ aiSent' = Set(aiSent, s, <<>>)
        /\ IF d # ""
           THEN /\ telSent' = Set(telSent, s,
                        <<audioDelta(streamSid[s], d)>> \o sendMarkFrames(s))
                /\ responseStartTimestampTwilio' =
                       Set(responseStartTimestampTwilio, s, deltaResponseStart(s))
                /\ lastAssistantItem' =
                       Set(lastAssistantItem, s,
                           deltaAssistantItem(s, processEventItem(s, i)))
                /\ markQueue' = Set(markQueue, s, sendMarkQueue(s))
                /\ obs' = Set(obs, s,
                      [Observe(s, "audio.delta",
                               IF obs[s].scen = "s2" /\ i = "I1" THEN "s3" ELSE "off")
                         EXCEPT !.respItem = i,
                                !.respStart = IF obs[s].respItem = i
                                              THEN @ ELSE latestMediaTimestamp[s],
                                !.respTracked = IF obs[s].respItem = i
                                                THEN @ ELSE i \in conversation[s]])
           ELSE /\ telSent' = Set(telSent, s, <<>>)
                /\ obs' = Set(obs, s, Observe(s, "audio.delta", "off"))
                /\ UNCHANGED <<responseStartTimestampTwilio, lastAssistantItem, markQueue>>
        /\ UNCHANGED <<streamSid, latestMediaTimestamp, conversation, linkState,
                       activeConversations>>

\* An input_audio_buffer.speech_started event.
OnSpeechStarted(s) ==
    /\ AiDelivers(s)
    /\ handleSpeechStartedEvent(s)
    /\ obs' = Set(obs, s,
          [Observe(s, "speech_started",
                   IF obs[s].scen = "s3" THEN "s4" ELSE "off")
             EXCEPT !.respStart = IF ResponseActive(s) THEN NullTs ELSE @,
                    !.order = IF speechStartedTriggers(s)
                              THEN LinksOf(speechStartedSends(s)) ELSE @])
    /\ UNCHANGED <<streamSid, latestMediaTimestamp, conversation, linkState,
                   activeConversations, peer>>

\* A response.done event: the tracker folds it in, the session does nothing.
OnResponseDone(s) ==
    /\ AiDelivers(s)
    /\ peer[s].aiResp # NullStr
    /\ peer' = [peer EXCEPT ![s].aiResp = NullStr,
                            ![s].aiDone = @ \cup {peer[s].aiResp}]
    /\ aiSent' = Set(aiSent, s, <<>>)
    /\ telSent' = Set(telSent, s, <<>>)
    /\ obs' = Set(obs, s, Observe(s, "response.done", obs[s].scen))
    /\ UNCHANGED <<sessionState, conversation, linkState, activeConversations>>

\* ------------------------------------------------ link and timer callbacks
\* openAiWs.on("open"): setTimeout(initializeSession, 100)
OnAiOpen(s) ==
    /\ openAiWs[s] = "CONNECTING"
    /\ openAiWs' = Set(openAiWs, s, "OPEN")
    /\ initTimer' = Set(initTimer, s, "pending")
    /\ aiSent' = Set(aiSent, s, <<>>)
    /\ telSent' = Set(telSent, s, <<>>)
    /\ obs' = Set(obs, s, Observe(s, "ai.open", obs[s].scen))
    /\ UNCHANGED <<sessionState, conversation, connection, evictTimer,
                   activeConversations, peer>>

\* initializeSession, run by the timer
initializeSession(s) ==
    /\ initTimer[s] = "pending"
    /\ initTimer' = Set(initTimer, s, "fired")
    /\ aiSent' = Set(aiSent, s, <<sessionUpdate>>)
    /\ telSent' = Set(telSent, s, <<>>)
    /\ obs' = Set(obs, s, Observe(s, "init", obs[s].scen))
    /\ UNCHANGED <<sessionState, conversation, openAiWs, connection, evictTimer,
                   activeConversations, peer>>

\* openAiWs.on("close"), after a remote close or the end of a local one: logs
OnAiClose(s) ==
    /\ openAiWs[s] \in {"OPEN", "CLOSING"}
    /\ openAiWs' = Set(openAiWs, s, "CLOSED")
    /\ aiSent' = Set(aiSent, s, <<>>)
    /\ telSent' = Set(telSent, s, <<>>)
    /\ obs' = Set(obs, s, Observe(s, "ai.close", obs[s].scen))
    /\ UNCHANGED <<sessionState, conversation, connection, initTimer, evictTimer,
                   activeConversations, peer>>

\* openAiWs.on("error") then on("close"), when connecting fails: both log
OnAiError(s) ==
    /\ openAiWs[s] = "CONNECTING"
    /\ openAiWs' = Set(openAiWs, s, "CLOSED")
    /\ aiSent' = Set(aiSent, s, <<>>)
    /\ telSent' = Set(telSent, s, <<>>)
    /\ obs' = Set(obs, s, Observe(s, "ai.error", obs[s].scen))
    /\ UNCHANGED <<sessionState, conversation, connection, initTimer, evictTimer,
                   activeConversations, peer>>

\* connection.on("close"): if (openAiWs.readyState === OPEN) openAiWs.close()
closeAiLink(s) == IF openAiWs[s] = "OPEN" THEN "CLOSING" ELSE openAiWs[s]

OnTelephonyClose(s) ==
    /\ connection[s] = "OPEN"
    /\ connection' = Set(connection, s, "CLOSED")
    /\ openAiWs' = Set(openAiWs, s, closeAiLink(s))
    /\ evictTimer' = Set(evictTimer, s, [state |-> "pending", left |-> GraceTicks])
    /\ aiSent' = Set(aiSent, s, <<>>)
    /\ telSent' = Set(telSent, s, <<>>)
    /\ obs' = Set(obs, s, Observe(s, "close", obs[s].scen))
    /\ UNCHANGED <<sessionState, conversation, initTimer, activeConversations, peer>>

\* Time passes while the eviction timer of session s runs.
Tick(s) ==
    /\ evictTimer[s].state = "pending"
    /\ evictTimer[s].left > 0
    /\ evictTimer' = [evictTimer EXCEPT ![s].left = @ - 1]
    /\ UNCHANGED <<sessionState, conversation, openAiWs, connection, initTimer,
                   activeConversations, aiSent, telSent, peer, obs>>

\* Faulty variant of evictEntries: the timer empties the registry (C20 must
\* tell it apart).
evictEntries_Clear(s) ==
    IF streamSid[s] # NullStr
    THEN [x \in {} |-> s]
    ELSE activeConversations

\* The timer callback: if (streamSid) activeConversations.delete(streamSid)
evictEntries(s) ==
    IF streamSid[s] # NullStr
    THEN MapDelete(activeConversations, streamSid[s])
    ELSE activeConversations

OnEvictTimeout(s) ==
    /\ evictTimer[s].state = "pending"
    /\ evictTimer[s].left = 0
    /\ evictTimer' = [evictTimer EXCEPT ![s].state = "fired"]
    /\ activeConversations' = evictEntries(s)
    /\ aiSent' = Set(aiSent, s, <<>>)
    /\ telSent' = Set(telSent, s, <<>>)
    /\ obs' = Set(obs, s, Observe(s, "evict", obs[s].scen))
    /\ UNCHANGED <<sessionState, conversation, openAiWs, connection, initTimer, peer>>

\* ------------------------------------------------------- specifications
SessionNext(s) ==
    \/ OnMedia(s)
    \/ OnStart(s)
    \/ OnMark(s)
    \/ OnOtherFrame(s)
    \/ OnItemCreated(s)
    \/ OnAudioDelta(s)
    \/ OnSpeechStarted(s)
    \/ OnResponseDone(s)
    \/ OnAiOpen(s)
    \/ initializeSession(s)
    \/ OnAiClose(s)
    \/ OnAiError(s)
    \/ OnTelephonyClose(s)
    \/ Tick(s)
    \/ OnEvictTimeout(s)

Next == \E s \in Accepted : SessionNext(s)

Spec == Init /\ [][Next]_vars

\* The same program with the media frames and the appends recorded, for the
\* properties of the relayed audio sequence; at most MaxFrames frames arrive.
\* Every telephony frame, every link and timer callback of the relay path and
\* the AI events that make the session send (audio deltas, speech-started) run.
InitRelay ==
    /\ Init!1 /\ Init!2 /\ Init!3 /\ Init!4 /\ Init!5 /\ Init!6 /\ Init!7
    /\ Init!8 /\ Init!9 /\ Init!10 /\ Init!11 /\ Init!12 /\ Init!13 /\ Init!14
    /\ obs = [s \in Sessions |->
                 [lastEv |-> "none", mediaLog |-> <<>>, appendLog |-> <<>>,
                  respStart |-> NullTs, respItem |-> NullStr, respTracked |-> FALSE,
                  scen |-> "s0", registered |-> {}, rec |-> TRUE,
                  order |-> <<>>, left |-> -1]]

RelayNext(s) ==
    \/ OnMedia(s)
    \/ OnStart(s)
    \/ OnMark(s)
    \/ OnOtherFrame(s)
    \/ OnAudioDelta(s)
    \/ OnSpeechStarted(s)
    \/ OnAiOpen(s)
    \/ initializeSession(s)
    \/ OnAiClose(s)
    \/ OnAiError(s)
    \/ OnTelephonyClose(s)

NextRelay == \E s \in Accepted : RelayNext(s)

SpecRelay == InitRelay /\ [][NextRelay]_vars

\* The same program when messages that do not decode arrive among the others,
\* on a call that stays up.
DecodeNext(s) ==
    \/ OnMedia(s)
    \/ OnStart(s)
    \/ OnMark(s)
    \/ OnMalformedFrame(s)
    \/ OnMalformedEvent(s)
    \/ OnItemCreated(s)
    \/ OnAudioDelta(s)
    \/ OnSpeechStarted(s)
    \/ OnAiOpen(s)
    \/ initializeSession(s)
    \/ OnAiClose(s)
    \/ OnTelephonyClose(s)

NextDecode == \E s \in Accepted : DecodeNext(s)

SpecDecode == Init /\ [][NextDecode]_vars

\* Two sessions side by side, each with a call of its own: session s receives
\* start frames that carry OwnSid(s).  Each session runs at most MaxSteps
\* callbacks.
OwnSid(s) == IF s = 1 THEN "CA1" ELSE "CA2"

InitIso ==
    /\ Init!1 /\ Init!2 /\ Init!3 /\ Init!4 /\ Init!5 /\ Init!6 /\ Init!7
    /\ Init!8 /\ Init!9 /\ Init!10 /\ Init!11 /\ Init!12 /\ Init!13 /\ Init!14
    /\ obs = [s \in Sessions |->
                 [lastEv |-> "none", mediaLog |-> <<>>, appendLog |-> <<>>,
                  respStart |-> NullTs, respItem |-> NullStr, respTracked |-> FALSE,
                  scen |-> "s0", registered |-> {}, rec |-> FALSE,
                  order |-> <<>>, left |-> MaxSteps]]

IsoNext(s) ==
    \/ obs[s].left > 0 /\ OnMedia(s)
    \/ obs[s].left > 0 /\ StartFrame(s, OwnSid(s))
    \/ obs[s].left > 0 /\ OnMark(s)
    \/ obs[s].left > 0 /\ OnAudioDelta(s)
    \/ obs[s].left > 0 /\ OnSpeechStarted(s)
    \/ obs[s].left > 0 /\ OnAiOpen(s)
    \/ obs[s].left > 0 /\ OnAiClose(s)
    \/ obs[s].left > 0 /\ OnTelephonyClose(s)
    \/ Tick(s)
    \/ obs[s].left > 0 /\ OnEvictTimeout(s)

NextIso == \E s \in Sessions : IsoNext(s)

SpecIso == InitIso /\ [][NextIso]_vars

TypeOK ==
    \A s \in Sessions :
        /\ streamSid[s] \in StreamSids \cup {NullStr}
        /\ latestMediaTimestamp[s] \in Timestamps
        /\ lastAssistantItem[s] \in Items \cup {NullStr}
        /\ Len(markQueue[s]) <= MaxMarks
        /\ responseStartTimestampTwilio[s] \in Timestamps \cup {NullTs}
        /\ openAiWs[s] \in {"CONNECTING", "OPEN", "CLOSING", "CLOSED"}
        /\ connection[s] \in {"OPEN", "CLOSED"}


\* --------------------------------------------------------------- claims
TruncatesOf(m) == SelectSeq(m, LAMBDA c : c.type = "conversation.item.truncate")

\* C1: when the first audio delta of a response (whose item the tracker holds)
\* was forwarded at latestMediaTimestamp = t0 and speech-started is processed at
\* latestMediaTimestamp = t1 with markQueue non-empty and no interruption or
\* start frame in between, the session sends exactly one truncate command, naming
\* that response's item with audio cutoff t1 - t0.
C1_TruncateCutoffFromResponseStart ==
    [][\A s \in Sessions :
          (/\ OnSpeechStarted(s)
           /\ obs[s].respStart # NullTs
           /\ obs[s].respTracked
           /\ Len(markQueue[s]) > 0)
          => aiSent'[s] = <<truncateEvent(obs[s].respItem,
                                           latestMediaTimestamp[s] - obs[s].respStart)>>
      ]_vars

\* C2: in every state responseStartTimestampTwilio, when set, is at most
\* latestMediaTimestamp, and every truncate command a speech-started event sends
\* carries the cutoff latestMediaTimestamp - responseStartTimestampTwilio of the
\* moment it is processed, which is not negative.
C2_CutoffNeverNegative ==
    [][\A s \in Sessions :
          /\ responseStartTimestampTwilio'[s] # NullTs
                => responseStartTimestampTwilio'[s] <= latestMediaTimestamp'[s]
          /\ OnSpeechStarted(s) =>
                \A k \in 1..Len(TruncatesOf(aiSent'[s])) :
                    /\ TruncatesOf(aiSent'[s])[k].audio_end_ms =
                           latestMediaTimestamp[s] - responseStartTimestampTwilio[s]
                    /\ TruncatesOf(aiSent'[s])[k].audio_end_ms >= 0
      ]_vars

\* C2 witness: a truncate command with a positive cutoff has been sent.
C2_Witness ==
    \E s \in Sessions :
        /\ obs[s].lastEv = "speech_started"
        /\ Len(aiSent[s]) = 1
        /\ aiSent[s][1].type = "conversation.item.truncate"
        /\ aiSent[s][1].audio_end_ms > 0

\* C3: a speech-started event processed while markQueue is empty or
\* responseStartTimestampTwilio is null sends nothing on either link and leaves
\* markQueue, lastAssistantItem, responseStartTimestampTwilio and
\* latestMediaTimestamp unchanged.
C3_InactiveSpeechStartedIsNoOp ==
    [][\A s \in Sessions :
          (OnSpeechStarted(s) /\ ~ResponseActive(s))
          => /\ aiSent'[s] = <<>>
             /\ telSent'[s] = <<>>
             /\ markQueue'[s] = markQueue[s]
             /\ lastAssistantItem'[s] = lastAssistantItem[s]
             /\ responseStartTimestampTwilio'[s] = responseStartTimestampTwilio[s]
             /\ latestMediaTimestamp'[s] = latestMediaTimestamp[s]
      ]_vars

\* C3 witness: speech-started was processed with marks outstanding but no
\* response start recorded, and nothing was sent.
C3_Witness ==
    \E s \in Sessions :
        /\ obs[s].lastEv = "speech_started"
        /\ Len(markQueue[s]) > 0
        /\ responseStartTimestampTwilio[s] = NullTs
        /\ lastAssistantItem[s] # NullStr
        /\ telSent[s] = <<>>

\* C4: right after a speech-started event processed while markQueue is non-empty
\* and responseStartTimestampTwilio is set, markQueue is empty, lastAssistantItem
\* and responseStartTimestampTwilio are null, and latestMediaTimestamp and
\* streamSid are unchanged.
C4_StateAfterInterruption ==
    [][\A s \in Sessions :
          (OnSpeechStarted(s) /\ ResponseActive(s))
          => /\ markQueue'[s] = <<>>
             /\ lastAssistantItem'[s] = NullStr
             /\ responseStartTimestampTwilio'[s] = NullTs
             /\ latestMediaTimestamp'[s] = latestMediaTimestamp[s]
             /\ streamSid'[s] = streamSid[s]
      ]_vars

\* C4 witness: an interruption that truncated an item and cleared the playback.
C4_Witness ==
    \E s \in Sessions :
        /\ obs[s].lastEv = "speech_started"
        /\ telSent[s] = <<clearEvent(streamSid[s])>>
        /\ Len(TruncatesOf(aiSent[s])) = 1
        /\ latestMediaTimestamp[s] > 0

\* The run so far is exactly start{CA1}, media{0, "a"}, audio delta for I1,
\* speech-started, and the speech-started callback is the last one that ran.
ScenarioDone(s) == obs[s].scen = "s4" /\ obs[s].lastEv = "speech_started"

\* C5 (as claimed): for the sequence start{CA1}, media{0, "a"}, audio delta for
\* I1, speech-started, no truncate command is sent on the AI link.
C5_ScenarioSendsNoTruncate ==
    \A s \in Sessions : ScenarioDone(s) => TruncatesOf(aiSent[s]) = <<>>

\* C5 (amended): for that sequence the speech-started event sends one clear frame
\* for CA1 and, when the tracker returned item I1 for the delta, exactly one
\* truncate command naming I1 with cutoff 0; it sends no truncate only when the
\* tracker returned no item.
C5_ScenarioTruncatesAtZero ==
    \A s \in Sessions :
        ScenarioDone(s) =>
            /\ telSent[s] = <<clearEvent("CA1")>>
            /\ aiSent[s] = IF obs[s].respTracked
                           THEN <<truncateEvent("I1", 0)>>
                           ELSE <<>>

C5_Witness ==
    \E s \in Sessions :
        /\ ScenarioDone(s)
        /\ aiSent[s] = <<truncateEvent("I1", 0)>>

\* C6: latestMediaTimestamp is the timestamp of the last media frame processed
\* since the last start frame (0 when there is none), whatever the state of the AI
\* link was when the frames arrived and whatever other frames, AI events and
\* callbacks ran in between.
C6_LatestIsLastFrame ==
    \A s \in Sessions :
        latestMediaTimestamp[s] =
            IF peer[s].lastTs = NullTs THEN 0 ELSE peer[s].lastTs

\* C6 witness: a media frame with a positive timestamp processed while the AI
\* link was not open, followed by an AI event that left the timestamp alone.
C6_Witness ==
    \E s \in Sessions :
        /\ obs[s].lastEv = "ai.error"
        /\ peer[s].lastTs > 0
        /\ latestMediaTimestamp[s] = peer[s].lastTs

\* C7: every call identifier the session registered is in the registry, mapped
\* to the session, until the eviction timer has run, and absent afterwards.
C7_RegisteredEntriesLiveUntilEviction ==
    \A s \in Sessions : \A c \in obs[s].registered :
        IF evictTimer[s].state = "fired"
        THEN ~MapHas(activeConversations, c)
        ELSE MapHas(activeConversations, c) /\ activeConversations[c] = s

\* C8: when the AI link closes while the telephony link is open, the session
\* closes the telephony link and schedules the eviction of its registry entry.
C8_AiCloseClosesTelephony ==
    [][\A s \in Sessions :
          (openAiWs[s] = "OPEN" /\ openAiWs'[s] = "CLOSED" /\ connection[s] = "OPEN")
          => connection'[s] # "OPEN" /\ evictTimer'[s].state = "pending"
      ]_vars

\* C9: once the telephony link has closed and no callback of the session is
\* pending any more, the AI link is not open.
C9_AiLinkClosedAfterTelephonyClose ==
    \A s \in Sessions :
        (/\ connection[s] = "CLOSED"
         /\ initTimer[s] # "pending"
         /\ evictTimer[s].state = "fired")
        => openAiWs[s] # "OPEN"

\* C10: the input-audio-append commands sent on the AI link carry, in arrival
\* order and one per frame, exactly the payloads of the media frames that arrived
\* while the AI link was open; frames that arrived otherwise are never sent.
C10_AppendsAreFramesWhileOpen ==
    \A s \in Sessions :
        LET open == SelectSeq(obs[s].mediaLog, LAMBDA f : f.aiOpen)
        IN  [k \in 1..Len(obs[s].appendLog) |-> obs[s].appendLog[k].audio]
              = [k \in 1..Len(open) |-> open[k].payload]

\* C10 witness: a frame that arrived before the AI link was open was dropped and
\* the next one, arriving while it was open, was forwarded.
C10_Witness ==
    \E s \in Sessions :
        /\ Len(obs[s].mediaLog) = 2
        /\ obs[s].mediaLog[1] = [payload |-> "a", aiOpen |-> FALSE]
        /\ obs[s].mediaLog[2] = [payload |-> "b", aiOpen |-> TRUE]
        /\ obs[s].appendLog = <<audioAppend("b")>>

\* C11: every frame the session sends on the telephony link carries a stream
\* identifier that is set, also the media frames made from audio deltas that
\* arrive before the start frame.
C11_OutboundFramesAreTagged ==
    \A s \in Sessions :
        \A k \in 1..Len(telSent[s]) : telSent[s][k].streamSid # NullStr

\* C13: in every state, when responseStartTimestampTwilio is null, markQueue is
\* empty.
C13_NoMarksWithoutResponse ==
    \A s \in Sessions :
        responseStartTimestampTwilio[s] = NullTs => markQueue[s] = <<>>

\* The frames of one kind among the telephony frames m.
FramesOf(m, kind) == SelectSeq(m, LAMBDA f : f.event = kind)

\* C12: every audio chunk forwarded to the telephony link appends exactly one
\* token to markQueue and sends exactly one mark frame; every mark frame received
\* removes the front token of a non-empty markQueue, does nothing to an empty
\* one, and changes no other field of the session.
C12_MarkQueueAccounting ==
    [][\A s \in Sessions :
          /\ (OnAudioDelta(s) /\ FramesOf(telSent'[s], "media") # <<>>)
                => /\ Len(FramesOf(telSent'[s], "media")) = 1
                   /\ Len(FramesOf(telSent'[s], "mark")) = 1
                   /\ markQueue'[s] = Append(markQueue[s], "responsePart")
          /\ OnMark(s)
                => /\ markQueue'[s] = IF markQueue[s] = <<>>
                                      THEN <<>> ELSE Tail(markQueue[s])
                   /\ telSent'[s] = <<>> /\ aiSent'[s] = <<>>
                   /\ streamSid'[s] = streamSid[s]
                   /\ latestMediaTimestamp'[s] = latestMediaTimestamp[s]
                   /\ lastAssistantItem'[s] = lastAssistantItem[s]
                   /\ responseStartTimestampTwilio'[s] = responseStartTimestampTwilio[s]
      ]_vars

\* C14: a message that does not decode, on either link, sends nothing on either
\* link and changes neither the session's fields nor the registry, so the next
\* message meets the state it would have met without it.
C14_MalformedIsDropped ==
    [][\A s \in Sessions :
          (OnMalformedFrame(s) \/ OnMalformedEvent(s))
              => /\ aiSent'[s] = <<>> /\ telSent'[s] = <<>>
                 /\ streamSid'[s] = streamSid[s]
                 /\ latestMediaTimestamp'[s] = latestMediaTimestamp[s]
                 /\ responseStartTimestampTwilio'[s] = responseStartTimestampTwilio[s]
                 /\ lastAssistantItem'[s] = lastAssistantItem[s]
                 /\ markQueue'[s] = markQueue[s]
                 /\ activeConversations' = activeConversations
                 /\ UNCHANGED <<conversation, linkState>>
      ]_vars

C14_Witness ==
    \E s \in Sessions :
        /\ obs[s].lastEv = "malformed"
        /\ streamSid[s] # NullStr
        /\ MapHas(activeConversations, streamSid[s])
        /\ latestMediaTimestamp[s] > 0
        /\ responseStartTimestampTwilio[s] # NullTs
        /\ lastAssistantItem[s] # NullStr
        /\ markQueue[s] # <<>>

\* C15: the session-update command is sent while the AI link is open, also when
\* the AI link or the telephony link closes between the open event and the
\* initialization timer; so a session whose AI link opened gets its one
\* session-update onto an open link.
C15_SessionUpdateOnOpenLink ==
    [][\A s \in Sessions :
          (initializeSession(s) /\ sessionUpdate \in {aiSent'[s][k] : k \in 1..Len(aiSent'[s])})
              => openAiWs[s] = "OPEN"
      ]_vars

\* C16: a speech-started event processed with markQueue non-empty and
\* responseStartTimestampTwilio set sends exactly one clear frame on the
\* telephony link whether or not lastAssistantItem is set, exactly one truncate
\* on the AI link when lastAssistantItem is set and none when it is null, and
\* the truncate goes out before the clear.
C16_InterruptionSends ==
    [][\A s \in Sessions :
          (/\ OnSpeechStarted(s)
           /\ Len(markQueue[s]) > 0
           /\ responseStartTimestampTwilio[s] # NullTs)
          => /\ telSent'[s] = <<clearEvent(streamSid[s])>>
             /\ Len(aiSent'[s]) = Len(TruncatesOf(aiSent'[s]))
             /\ Len(aiSent'[s]) = IF lastAssistantItem[s] # NullStr THEN 1 ELSE 0
             /\ obs'[s].order = IF lastAssistantItem[s] # NullStr
                                THEN <<"ai", "tel">> ELSE <<"tel">>
      ]_vars

\* Both cases happen: an interruption that sent truncate then clear, and one
\* that, with no assistant item known, sent the clear frame alone.
C16_Witness ==
    \E s \in Sessions :
        /\ obs[s].lastEv = "speech_started"
        /\ obs[s].order = <<"ai", "tel">>
        /\ TruncatesOf(aiSent[s]) # <<>>
        /\ FramesOf(telSent[s], "clear") # <<>>

C16_WitnessNoItem ==
    \E s \in Sessions :
        /\ obs[s].lastEv = "speech_started"
        /\ obs[s].order = <<"tel">>
        /\ aiSent[s] = <<>>
        /\ FramesOf(telSent[s], "clear") # <<>>

\* C17: every truncate command names the item of the most recently forwarded
\* audio delta, never the item of an earlier response that finished playing,
\* also when the tracker returns no item for the deltas of the current response.
C17_TruncateNamesCurrentItem ==
    [][\A s \in Sessions :
          OnSpeechStarted(s)
              => \A k \in 1..Len(TruncatesOf(aiSent'[s])) :
                     TruncatesOf(aiSent'[s])[k].item_id = obs[s].respItem
      ]_vars

\* C18: after a triggered interruption of the response of item I, audio deltas
\* of that response that still arrive are not forwarded as media frames and do
\* not set responseStartTimestampTwilio, lastAssistantItem or markQueue again.
C18_NoLateAudioAfterInterruption ==
    [][\A s \in Sessions :
          (/\ obs[s].lastEv = "speech_started"
           /\ FramesOf(telSent[s], "clear") # <<>>
           /\ OnAudioDelta(s)
           /\ peer'[s].aiResp = obs[s].respItem)
          => /\ FramesOf(telSent'[s], "media") = <<>>
             /\ responseStartTimestampTwilio'[s] = responseStartTimestampTwilio[s]
             /\ lastAssistantItem'[s] = lastAssistantItem[s]
             /\ markQueue'[s] = markQueue[s]
      ]_vars

\* C19: session.update is the first command sent on the AI link: no
\* input_audio_buffer.append is sent before initializeSession has run, however
\* the media frames interleave with the open event and the timer.
C19_NoAppendBeforeSessionUpdate ==
    [][\A s \in Sessions :
          (OnMedia(s) /\ AppendsOf(aiSent'[s]) # <<>>) => initTimer[s] = "fired"
      ]_vars

\* C20: with two sessions that carry distinct call identifiers, no callback of
\* one session changes the other session's latestMediaTimestamp,
\* responseStartTimestampTwilio, lastAssistantItem, markQueue or streamSid, sends
\* on the other session's links, or adds, replaces or removes the registry entry
\* of the other session's call, in any interleaving.
C20_SessionsAreIsolated ==
    [][\A s, t \in Sessions :
          (s # t /\ IsoNext(s))
          => /\ latestMediaTimestamp'[t] = latestMediaTimestamp[t]
             /\ responseStartTimestampTwilio'[t] = responseStartTimestampTwilio[t]
             /\ lastAssistantItem'[t] = lastAssistantItem[t]
             /\ markQueue'[t] = markQueue[t]
             /\ streamSid'[t] = streamSid[t]
             /\ aiSent'[t] = aiSent[t] /\ telSent'[t] = telSent[t]
             /\ openAiWs'[t] = openAiWs[t] /\ connection'[t] = connection[t]
             /\ MapHas(activeConversations', OwnSid(t))
                    = MapHas(activeConversations, OwnSid(t))
             /\ MapHas(activeConversations, OwnSid(t))
                    => activeConversations'[OwnSid(t)] = activeConversations[OwnSid(t)]
      ]_vars

\* One session's entry was evicted while the other session, mid-call with a
\* response playing, still has its own.
C20_Witness ==
    \E s, t \in Sessions :
        /\ s # t
        /\ obs[s].lastEv = "evict"
        /\ streamSid[s] = OwnSid(s)
        /\ ~MapHas(activeConversations, OwnSid(s))
        /\ streamSid[t] = OwnSid(t)
        /\ MapHas(activeConversations, OwnSid(t))
        /\ activeConversations[OwnSid(t)] = t
        /\ markQueue[t] # <<>>

====
